---- MODULE Spec2Model ----
(***************************************************************************)
(* McpConnection and McpSessionManager of                                  *)
(* ali_agentic_adk_python/extension/mcp/connection.py as a state machine.  *)
(*                                                                         *)
(* The code runs on one asyncio event loop: a coroutine runs until it      *)
(* reaches an await that really suspends, and only then may another task   *)
(* run.  `running` is the task that holds the loop; an action of task t    *)
(* either resumes t from a suspension (running = 0) or continues t's       *)
(* synchronous code (running = t).  Each task carries the stack of its     *)
(* nested coroutine calls; `sig` hands a finished call's outcome (a return *)
(* or an exception) to its caller.                                         *)
(***************************************************************************)
EXTENDS Integers, Sequences, FiniteSets, TLC

\* ------------------------------------------------------------- bounds
NTasks == 2          \* callers
MaxOps == 3          \* manager operations started in one behaviour
MaxOpen == 2         \* transports the environment lets be open at once
RecursionLimit == 3  \* nested calls into a connection before Python raises RecursionError
MaxConns == 2        \* connection objects
MaxInvokes == 2      \* invoke_tool calls in one behaviour
MaxTools == 3        \* tools the servers list in all
MaxRemoves == 2      \* remove_server calls in one behaviour
MaxBlocks == 3       \* content blocks of one tool result
MaxTimeout == 2      \* seconds a request asks for as its timeout
MaxDelay == 1        \* seconds by which a sleep or a poll may overrun

Tasks == 1..NTasks
ConnIds == 1..MaxConns

\* Python's None: the empty tuple; a value v that is present: <<v>>.
None == <<>>

NameSeparator == "."
ServerNames == {"srv"}
ToolNames == {"echo", "echo#1", "srv.echo"}
Namespaces == {None, <<"">>, <<"srv">>}

VARIABLES
    connections,    \* McpSessionManager._connections: sequence of connection ids
    started,        \* McpSessionManager._started
    registry,       \* McpSessionManager._tool_registry: exposed name -> descriptor
    mlock,          \* McpSessionManager._lock: 0 (free) or the holding task
    cfg_ns,         \* McpConnection._config.namespace
    stack_entered,  \* McpConnection._stack_entered
    exit_stack,     \* McpConnection._stack: the sessions (with their transports) it holds
    session,        \* McpConnection._session: None or <<session id>>
    server_info,    \* McpConnection._server_info: None or <<name>>
    tools,          \* McpConnection._tools: the tool names, in dict order
    connected,      \* McpConnection._connected
    call_lock,      \* McpConnection._call_lock: 0 (free) or the holding task
    stack,          \* per task: the frames of its nested coroutine calls
    sig,            \* per task: outcome of the call that just finished
    running,        \* the task that holds the event loop, 0 when it is idle
    nops,           \* operations started so far
    last,           \* the top-level operation that finished in this very step
    attempted,      \* per task: connections a manager refresh() asked to refresh
    invocation,     \* the last invoke_tool: exposed name, args and returned value
    call_log,       \* the call_tool calls connections received in that invoke_tool
    script          \* a do_script_execute call of AtomicOperations: its locals and history

connVars == <<cfg_ns, stack_entered, exit_stack, session, server_info, tools,
              connected, call_lock>>
mgrVars == <<connections, started, registry, mlock, attempted>>
taskVars == <<stack, sig, running, nops, last>>
invVars == <<invocation, call_log, script>>
vars == <<connVars, mgrVars, taskVars, invVars>>

\* ------------------------------------------------------------- frames
Frame(op, pc, c) ==
    [op |-> op, pc |-> pc, c |-> c, i |-> 0, s |-> None, held |-> {}]
Depth(t) == Len(stack[t])
Top(t) == stack[t][Depth(t)]
At(t, op, pc) == Depth(t) > 0 /\ Top(t).op = op /\ Top(t).pc = pc

\* Awaits at which the coroutine really yields to the event loop.
Suspended == {"opening", "initializing", "closing", "listing", "calling",
              "lockwait", "mlockwait", "body"}

\* The task continues its synchronous code.
Runs(t) == running = t
\* The event loop resumes the task from a suspension.
Resumes(t) == running = 0

NoEvent == [t |-> 0, op |-> "none", c |-> 0, out |-> "none"]
NoInvocation == [name |-> "", args |-> "", result |-> "", error |-> <<>>]
NoScript == [pc |-> "none"]

\* Replace the top frame's pc (and stay on the loop, or yield at a suspension).
Goto(t, pc) ==
    /\ stack' = [stack EXCEPT ![t][Depth(t)].pc = pc]
    /\ sig' = [sig EXCEPT ![t] = "none"]
    /\ running' = IF pc \in Suspended THEN 0 ELSE t
    /\ last' = NoEvent

\* Replace the top frame's pc and its loop index.
GotoI(t, pc, i) ==
    /\ stack' = [stack EXCEPT ![t][Depth(t)].pc = pc, ![t][Depth(t)].i = i]
    /\ sig' = [sig EXCEPT ![t] = "none"]
    /\ running' = IF pc \in Suspended THEN 0 ELSE t
    /\ last' = NoEvent

\* The top frame moves to pc and calls a coroutine, which starts synchronously.
Call(t, pc, f) ==
    /\ stack' = [stack EXCEPT ![t] = Append([@ EXCEPT ![Depth(t)].pc = pc], f)]
    /\ sig' = [sig EXCEPT ![t] = "none"]
    /\ running' = t
    /\ last' = NoEvent

\* The top frame returns ("ret") or raises ("exc") to its caller; a top-level
\* operation that finishes hands the loop back and is recorded in `last`.
Finish(t, out) ==
    /\ stack' = [stack EXCEPT ![t] = SubSeq(@, 1, Depth(t) - 1)]
    /\ sig' = [sig EXCEPT ![t] = IF Depth(t) = 1 THEN "none" ELSE out]
    /\ running' = IF Depth(t) = 1 THEN 0 ELSE t
    /\ last' = IF Depth(t) = 1
               THEN [t |-> t, op |-> Top(t).op, c |-> Top(t).c, out |-> out]
               ELSE NoEvent

\* The sessions (and transports) that an aclose() in progress has taken off an
\* exit stack and is still tearing down.
Held == UNION UNION {{stack[t][k].held : k \in 1..Depth(t)} : t \in Tasks}

\* The transports the environment holds open.
TotalOpen == Cardinality(UNION {exit_stack[c] : c \in ConnIds} \cup Held)

\* ------------------------------------------------------ McpConnection
\* McpConnection.namespace
namespace(c) ==
    IF cfg_ns[c] # None /\ cfg_ns[c][1] # "" THEN cfg_ns[c]
    ELSE IF server_info[c] # None THEN server_info[c]
    ELSE None

\* McpConnection.is_connected
is_connected(c) == connected[c]

\* connect(), lines 68-76: return when connected, else enter the exit stack
\* (AsyncExitStack.__aenter__ does not suspend) and start opening the transport.
ConnectStart(t) ==
    /\ At(t, "connect", "start") /\ Runs(t)
    /\ LET c == Top(t).c IN
       IF connected[c]
       THEN /\ Finish(t, "ret")
            /\ UNCHANGED stack_entered
       ELSE /\ stack_entered' = [stack_entered EXCEPT ![c] = TRUE]
            /\ Goto(t, "opening")
    /\ UNCHANGED <<cfg_ns, exit_stack, session, server_info, tools, connected,
                   call_lock, mgrVars, nops>>
    /\ UNCHANGED invVars

\* connect(), lines 76-79: the transport opened and went on the exit stack, the
\* ClientSession was entered and stored, and initialize() is sent.
OpenTransportOk(t) ==
    /\ At(t, "connect", "opening") /\ Resumes(t)
    /\ TotalOpen < MaxOpen
    /\ LET c == Top(t).c
           sid == <<t, Depth(t)>> IN
       /\ exit_stack' = [exit_stack EXCEPT ![c] = @ \cup {sid}]
       /\ session' = [session EXCEPT ![c] = <<sid>>]
    /\ Goto(t, "initializing")
    /\ UNCHANGED <<cfg_ns, stack_entered, server_info, tools, connected,
                   call_lock, mgrVars, nops>>
    /\ UNCHANGED invVars

\* connect(), line 76 raising: _open_transport failed (also when the environment
\* has no room for another transport).
OpenTransportFail(t) ==
    /\ At(t, "connect", "opening") /\ Resumes(t)
    /\ Goto(t, "except")
    /\ UNCHANGED <<connVars, mgrVars, nops>>
    /\ UNCHANGED invVars

\* connect(), lines 79-81: initialize() answered on a session that is still open;
\* the server identity is stored and refresh_tools() is called.
InitializeOk(t) ==
    /\ At(t, "connect", "initializing") /\ Resumes(t)
    /\ LET c == Top(t).c IN
       /\ <<t, Depth(t)>> \in exit_stack[c]
       /\ \E name \in ServerNames :
              server_info' = [server_info EXCEPT ![c] = <<name>>]
       /\ Call(t, "refreshing", Frame("refresh_tools", "start", c))
    /\ UNCHANGED <<cfg_ns, stack_entered, exit_stack, session, tools, connected,
                   call_lock, mgrVars, nops>>
    /\ UNCHANGED invVars

\* connect(), line 79 raising: the handshake failed.
InitializeFail(t) ==
    /\ At(t, "connect", "initializing") /\ Resumes(t)
    /\ Goto(t, "except")
    /\ UNCHANGED <<connVars, mgrVars, nops>>
    /\ UNCHANGED invVars

\* connect(), lines 81-82 and 88: refresh_tools() returned, so the connection is
\* marked connected; or it raised, and the handler runs.
ConnectRefreshed(t) ==
    /\ At(t, "connect", "refreshing") /\ Runs(t)
    /\ IF sig[t] = "ret"
       THEN /\ connected' = [connected EXCEPT ![Top(t).c] = TRUE]
            /\ Finish(t, "ret")
       ELSE /\ Goto(t, "except")
            /\ UNCHANGED connected
    /\ UNCHANGED <<cfg_ns, stack_entered, exit_stack, session, server_info, tools,
                   call_lock, mgrVars, nops>>
    /\ UNCHANGED invVars

\* connect(), line 89: the handler calls close().
ConnectExcept(t) ==
    /\ At(t, "connect", "except") /\ Runs(t)
    /\ Call(t, "reraise", Frame("close", "start", Top(t).c))
    /\ UNCHANGED <<connVars, mgrVars, nops>>
    /\ UNCHANGED invVars

\* connect(), lines 89-90: close() returned and the error is re-raised, or close()
\* itself raised and that error leaves connect().
ConnectReraise(t) ==
    /\ At(t, "connect", "reraise") /\ Runs(t)
    /\ Finish(t, "exc")
    /\ UNCHANGED <<connVars, mgrVars, nops>>
    /\ UNCHANGED invVars

\* close() as it would be without line 98.
ClearedKeepsIdentity(c) ==
    /\ session' = [session EXCEPT ![c] = None]
    /\ tools' = [tools EXCEPT ![c] = <<>>]
    /\ connected' = [connected EXCEPT ![c] = FALSE]
    /\ UNCHANGED server_info

\* close(), lines 97-100.
Cleared(c) ==
    /\ session' = [session EXCEPT ![c] = None]
    /\ server_info' = [server_info EXCEPT ![c] = None]
    /\ tools' = [tools EXCEPT ![c] = <<>>]
    /\ connected' = [connected EXCEPT ![c] = FALSE]

\* close(), lines 94-100.  AsyncExitStack.aclose() pops the exit callbacks and
\* awaits them: with none registered it neither suspends nor fails; otherwise
\* this call takes them off the stack and waits for their teardown.
CloseStart(t) ==
    /\ At(t, "close", "start") /\ Runs(t)
    /\ LET c == Top(t).c IN
       IF stack_entered[c] /\ exit_stack[c] # {}
       THEN /\ stack' = [stack EXCEPT ![t][Depth(t)].pc = "closing",
                                      ![t][Depth(t)].held = exit_stack[c]]
            /\ sig' = [sig EXCEPT ![t] = "none"]
            /\ running' = 0
            /\ last' = NoEvent
            /\ exit_stack' = [exit_stack EXCEPT ![c] = {}]
            /\ UNCHANGED <<stack_entered, session, server_info, tools, connected>>
       ELSE /\ stack_entered' = [stack_entered EXCEPT ![c] = FALSE]
            /\ Cleared(c)
            /\ Finish(t, "ret")
            /\ UNCHANGED exit_stack
    /\ UNCHANGED <<cfg_ns, call_lock, mgrVars, nops>>
    /\ UNCHANGED invVars

\* close(), line 95: the callbacks taken so far are done, and aclose()'s loop
\* finds more that were registered meanwhile: it takes those too.
AcloseMore(t) ==
    /\ stack' = [stack EXCEPT ![t][Depth(t)].held = exit_stack[Top(t).c]]
    /\ exit_stack' = [exit_stack EXCEPT ![Top(t).c] = {}]
    /\ last' = NoEvent
    /\ UNCHANGED <<stack_entered, session, server_info, tools, connected,
                   sig, running>>

\* close(), lines 95-100: aclose() released everything it took.
AcloseOk(t) ==
    /\ LET c == Top(t).c IN
       /\ stack_entered' = [stack_entered EXCEPT ![c] = FALSE]
       /\ Cleared(c)
    /\ Finish(t, "ret")
    /\ UNCHANGED exit_stack

\* close(), line 95 raising: aclose() ran every exit callback it took, one of
\* them raised, and lines 96-100 are skipped.
AcloseFail(t) ==
    /\ Finish(t, "exc")
    /\ UNCHANGED <<stack_entered, exit_stack, session, server_info, tools,
                   connected>>

\* close(), line 95: `await self._stack.aclose()` is resumed.  Its loop runs
\* while callbacks are registered; once there are none it returns, or raises
\* the error of a callback that failed.
Aclose(t) ==
    /\ At(t, "close", "closing") /\ Resumes(t)
    /\ IF exit_stack[Top(t).c] # {}
       THEN AcloseMore(t)
       ELSE AcloseOk(t) \/ AcloseFail(t)
    /\ UNCHANGED <<cfg_ns, call_lock, mgrVars, nops>>
    /\ UNCHANGED invVars

\* refresh_tools() line 104 and call_tool() line 112, with _require_session()
\* line 142: connect() is called first.  Beyond the interpreter's recursion
\* limit the call raises RecursionError instead.  The limit is counted in the
\* frames of the connection, so that it is reached at the same point of the
\* recursion whether connect() was called directly or by the manager.
ConnDepth(t) == Cardinality({k \in 1..Depth(t) : stack[t][k].c # 0})

RequireSession(t) ==
    /\ Depth(t) > 0 /\ Top(t).op \in {"refresh_tools", "call_tool"}
    /\ Top(t).pc = "start" /\ Runs(t)
    /\ IF ConnDepth(t) < RecursionLimit
       THEN Call(t, "requiring", Frame("connect", "start", Top(t).c))
       ELSE Finish(t, "exc")
    /\ UNCHANGED <<connVars, mgrVars, nops>>
    /\ UNCHANGED invVars

\* _require_session(), lines 142-145: connect() raised, or it returned and the
\* session is handed to the caller (RuntimeError when there is none).
_require_session(t) ==
    /\ Depth(t) > 0 /\ Top(t).op \in {"refresh_tools", "call_tool"}
    /\ Top(t).pc = "requiring" /\ Runs(t)
    /\ IF sig[t] = "exc" \/ session[Top(t).c] = None
       THEN Finish(t, "exc")
       ELSE Goto(t, "lock")
    /\ UNCHANGED <<connVars, mgrVars, nops>>
    /\ UNCHANGED invVars

\* refresh_tools() line 105 and call_tool() line 113: `async with self._call_lock`
\* takes a free lock without suspending and sends the request on the session
\* obtained before; a caller that finds the lock held waits for it.
AcquireCallLock(t) ==
    /\ Depth(t) > 0 /\ Top(t).op \in {"refresh_tools", "call_tool"}
    /\ \/ Top(t).pc = "lock" /\ Runs(t)
       \/ Top(t).pc = "lockwait" /\ Resumes(t) /\ call_lock[Top(t).c] = 0
    /\ LET c == Top(t).c IN
       IF call_lock[c] = 0
       THEN /\ call_lock' = [call_lock EXCEPT ![c] = t]
            /\ stack' = [stack EXCEPT ![t][Depth(t)].pc =
                             IF Top(t).op = "call_tool" THEN "calling" ELSE "listing",
                                      ![t][Depth(t)].s = session[c]]
            /\ sig' = [sig EXCEPT ![t] = "none"]
            /\ running' = 0
            /\ last' = NoEvent
       ELSE /\ Goto(t, "lockwait")
            /\ UNCHANGED call_lock
    /\ UNCHANGED <<cfg_ns, stack_entered, exit_stack, session, server_info, tools,
                   connected, mgrVars, nops>>
    /\ UNCHANGED invVars

\* The tool tables a server may list: sequences of distinct names (the dict built
\* on line 107 keeps the listing's order).
RECURSIVE Listings(_)
Listings(n) ==
    IF n = 0 THEN {<<>>}
    ELSE LET shorter == Listings(n - 1) IN
         shorter \cup {Append(l, x) : <<l, x>> \in
                          {<<l, x>> \in shorter \X ToolNames :
                               \A k \in 1..Len(l) : l[k] # x}}
ToolLists == Listings(IF MaxTools < Cardinality(ToolNames) THEN MaxTools
                      ELSE Cardinality(ToolNames))

\* refresh_tools(), lines 105-108: list_tools() answered, the lock is released
\* and then the cache is replaced; or it raised and the lock is released.
ListToolsDone(t) ==
    /\ At(t, "refresh_tools", "listing") /\ Resumes(t)
    /\ LET c == Top(t).c IN
       /\ call_lock' = [call_lock EXCEPT ![c] = 0]
       /\ \/ /\ Top(t).s # None /\ Top(t).s[1] \in exit_stack[c]
             /\ \E listing \in ToolLists : tools' = [tools EXCEPT ![c] = listing]
             /\ Finish(t, "ret")
          \/ /\ UNCHANGED tools
             /\ Finish(t, "exc")
    /\ UNCHANGED <<cfg_ns, stack_entered, exit_stack, session, server_info,
                   connected, mgrVars, nops>>
    /\ UNCHANGED invVars

\* call_tool(), lines 113-114: the call answered or raised; the lock is released.
CallToolDone(t) ==
    /\ At(t, "call_tool", "calling") /\ Resumes(t)
    /\ LET c == Top(t).c IN
       /\ call_lock' = [call_lock EXCEPT ![c] = 0]
       /\ \/ /\ Top(t).s # None /\ Top(t).s[1] \in exit_stack[c]
             /\ Finish(t, "ret")
          \/ Finish(t, "exc")
    /\ UNCHANGED <<cfg_ns, stack_entered, exit_stack, session, server_info, tools,
                   connected, mgrVars, nops>>
    /\ UNCHANGED invVars

\* The part of refresh_tools() and call_tool() after _require_session().
LockedRegion(t) == AcquireCallLock(t) \/ ListToolsDone(t) \/ CallToolDone(t)

ConnSteps(t) ==
    \/ ConnectStart(t)
    \/ OpenTransportOk(t)
    \/ OpenTransportFail(t)
    \/ InitializeOk(t)
    \/ InitializeFail(t)
    \/ ConnectRefreshed(t)
    \/ ConnectExcept(t)
    \/ ConnectReraise(t)
    \/ CloseStart(t)
    \/ Aclose(t)
    \/ RequireSession(t)
    \/ _require_session(t)

\* ------------------------------------------- callers of one connection
ConnOps == {"connect", "close", "refresh_tools", "call_tool"}

\* A caller starts one of the public coroutines of a McpConnection it holds.
\* call_tool() and refresh_tools() differ only under the call lock (lines
\* 105-108 and 113-114): the first caller's call_tool stands for a later one's.
BeginConn(t) ==
    /\ Resumes(t) /\ stack[t] = <<>>
    /\ t = nops + 1       \* callers are interchangeable: each makes one call
    /\ \E op \in ConnOps :
           /\ op = "call_tool" => t = 1
           /\ stack' = [stack EXCEPT ![t] = <<Frame(op, "start", 1)>>]
    /\ sig' = [sig EXCEPT ![t] = "none"]
    /\ running' = t
    /\ nops' = nops + 1
    /\ last' = NoEvent
    /\ UNCHANGED <<connVars, mgrVars>>
    /\ UNCHANGED invVars

\* McpConnection.__init__, lines 31-39.
InitConnFields ==
    /\ stack_entered = [c \in ConnIds |-> FALSE]
    /\ exit_stack = [c \in ConnIds |-> {}]
    /\ session = [c \in ConnIds |-> None]
    /\ server_info = [c \in ConnIds |-> None]
    /\ tools = [c \in ConnIds |-> <<>>]
    /\ connected = [c \in ConnIds |-> FALSE]
    /\ call_lock = [c \in ConnIds |-> 0]

InitTasks ==
    /\ stack = [t \in Tasks |-> <<>>]
    /\ sig = [t \in Tasks |-> "none"]
    /\ running = 0
    /\ nops = 0
    /\ last = NoEvent
    /\ invocation = NoInvocation
    /\ call_log = <<>>
    /\ script = NoScript

\* One McpConnection, built from a config without namespace, and its callers.
InitConn ==
    /\ InitConnFields
    /\ InitTasks
    /\ cfg_ns = [c \in ConnIds |-> None]
    /\ connections = <<>>
    /\ started = FALSE
    /\ registry = <<>>
    /\ mlock = 0
    /\ attempted = [t \in Tasks |-> {}]

NextConn == \E t \in Tasks : BeginConn(t) \/ ConnSteps(t)

SpecConn == InitConn /\ [][NextConn]_vars

\* --------------------------------------------------- McpSessionManager
\* _compose_name() as it would be with `if namespace is not None` on line 233.
ComposeWhenNotNone(ns, tool_name) ==
    IF ns # None THEN ns[1] \o NameSeparator \o tool_name
    ELSE tool_name

\* McpSessionManager._compose_name
_compose_name(ns, tool_name) ==
    IF ns # None /\ ns[1] # "" THEN ns[1] \o NameSeparator \o tool_name
    ELSE tool_name

\* _dedupe_name(), lines 241-246: the loop over suffix = 1, 2, ...
RECURSIVE DedupeLoop(_, _, _)
DedupeLoop(candidate, taken, suffix) ==
    LET updated == candidate \o "#" \o ToString(suffix) IN
    IF updated \notin taken THEN updated
    ELSE DedupeLoop(candidate, taken, suffix + 1)

\* _dedupe_name() as it would be without the loop of lines 241-246.
DedupeNoCheck(candidate, taken) == candidate

\* McpSessionManager._dedupe_name
_dedupe_name(candidate, taken) ==
    IF candidate \notin taken THEN candidate
    ELSE DedupeLoop(candidate, taken, 1)

\* The descriptor as it would be if line 222 stored the exposed name.
DescriptorOfExposedName(exposed_name, original_name, c) ==
    [exposed_name |-> exposed_name, original_name |-> exposed_name,
     connection |-> c, server_info |-> server_info[c]]

\* McpToolDescriptor as _rebuild_registry() builds it.
McpToolDescriptor(exposed_name, original_name, c) ==
    [exposed_name |-> exposed_name, original_name |-> original_name,
     connection |-> c, server_info |-> server_info[c]]

\* registry[key] = descriptor on a dict.
DictSet(dict, key, value) ==
    [k \in DOMAIN dict \cup {key} |-> IF k = key THEN value ELSE dict[k]]

\* _rebuild_registry(), lines 215-228: the two nested loops, at connection
\* number i and tool number j, with the registry and the taken names so far.
RECURSIVE RebuildLoop(_, _, _, _)
RebuildLoop(i, j, reg, taken) ==
    IF i > Len(connections) THEN reg
    ELSE LET c == connections[i] IN
         IF j > Len(tools[c]) THEN RebuildLoop(i + 1, 1, reg, taken)
         ELSE LET original_name == tools[c][j]
                  base_name == _compose_name(namespace(c), original_name)
                  unique_name == _dedupe_name(base_name, taken)
              IN RebuildLoop(i, j + 1,
                             DictSet(reg, unique_name,
                                     McpToolDescriptor(unique_name, original_name, c)),
                             taken \cup {unique_name})

\* _rebuild_registry() as it would be if its outer loop passed over the first
\* connection.
RebuildSkipsFirst == RebuildLoop(2, 1, <<>>, {})

\* McpSessionManager._rebuild_registry: the value assigned on line 230.
_rebuild_registry == RebuildLoop(1, 1, <<>>, {})

\* start(), stop() and refresh() as they would be without `async with
\* self._lock`.
MgrAcquireUnlocked(t) ==
    /\ Depth(t) > 0 /\ Top(t).op \in {"start", "stop", "refresh"}
    /\ Top(t).pc = "start" /\ Runs(t)
    /\ IF Top(t).op = "start" /\ started
       THEN /\ Finish(t, "ret")
            /\ UNCHANGED <<mlock, attempted>>
       ELSE /\ mlock' = t
            /\ attempted' = [attempted EXCEPT ![t] = {}]
            /\ GotoI(t, IF Top(t).op = "stop" THEN "shutdown" ELSE "loop", 1)
    /\ UNCHANGED <<connVars, connections, started, registry, nops>>
    /\ UNCHANGED invVars

\* `async with self._lock` of start(), stop() and refresh(), lines 167, 181 and
\* 196: a free lock is taken without suspending, a held one is waited for.  With
\* the lock start() returns at once when already started (lines 168-169).
MgrAcquire(t) ==
    /\ Depth(t) > 0 /\ Top(t).op \in {"start", "stop", "refresh"}
    /\ \/ Top(t).pc = "start" /\ Runs(t)
       \/ Top(t).pc = "mlockwait" /\ Resumes(t) /\ mlock = 0
    /\ IF mlock # 0
       THEN /\ Goto(t, "mlockwait")
            /\ UNCHANGED <<mlock, attempted>>
       ELSE IF Top(t).op = "start" /\ started
       THEN /\ Finish(t, "ret")
            /\ UNCHANGED <<mlock, attempted>>
       ELSE /\ mlock' = t
            /\ attempted' = [attempted EXCEPT ![t] = {}]
            /\ GotoI(t, IF Top(t).op = "stop" THEN "shutdown" ELSE "loop", 1)
    /\ UNCHANGED <<connVars, connections, started, registry, nops>>
    /\ UNCHANGED invVars

\* start(), lines 172-175: connect the next connection, or, after the last one,
\* rebuild the registry, mark the manager started and release the lock.
StartLoop(t) ==
    /\ At(t, "start", "loop") /\ Runs(t)
    /\ IF Top(t).i <= Len(connections)
       THEN /\ Call(t, "connecting", Frame("connect", "start", connections[Top(t).i]))
            /\ UNCHANGED <<registry, started, mlock>>
       ELSE /\ registry' = _rebuild_registry
            /\ started' = TRUE
            /\ mlock' = 0
            /\ Finish(t, "ret")
    /\ UNCHANGED <<connVars, connections, attempted, nops>>
    /\ UNCHANGED invVars

\* start(), lines 173 and 176-177: connect() returned, so the loop goes on; or it
\* raised, and the handler shuts the connections down.
StartConnected(t) ==
    /\ At(t, "start", "connecting") /\ Runs(t)
    /\ IF sig[t] = "ret"
       THEN GotoI(t, "loop", Top(t).i + 1)
       ELSE GotoI(t, "shutdown", 1)
    /\ UNCHANGED <<connVars, mgrVars, nops>>
    /\ UNCHANGED invVars

\* start() as it would be if a failed start left the manager marked started.
StartRaiseMarksStarted(t) ==
    /\ mlock' = 0
    /\ Finish(t, "exc")
    /\ started' = TRUE
    /\ UNCHANGED registry

\* The end of start() after a failed connect: line 178 re-raises and the lock is
\* released.
StartRaise(t) ==
    /\ mlock' = 0
    /\ Finish(t, "exc")
    /\ UNCHANGED <<started, registry>>

\* stop() as it would be without line 184.
StopEndKeepsStarted(t) ==
    /\ registry' = <<>>
    /\ mlock' = 0
    /\ Finish(t, "ret")
    /\ UNCHANGED started

\* The end of stop(): lines 183-184, and the lock is released.
StopEnd(t) ==
    /\ registry' = <<>>
    /\ started' = FALSE
    /\ mlock' = 0
    /\ Finish(t, "ret")

\* _shutdown_connections(), lines 249-251, called by start()'s handler and by
\* stop(): close the next connection, or go on in the caller after the last.
_shutdown_connections(t) ==
    /\ Depth(t) > 0 /\ Top(t).op \in {"start", "stop"}
    /\ Top(t).pc = "shutdown" /\ Runs(t)
    /\ IF Top(t).i <= Len(connections)
       THEN /\ attempted' = [attempted EXCEPT ![t] = @ \cup {connections[Top(t).i]}]
            /\ Call(t, "shut_closing", Frame("close", "start", connections[Top(t).i]))
            /\ UNCHANGED <<registry, started, mlock>>
       ELSE /\ IF Top(t).op = "start" THEN StartRaise(t) ELSE StopEnd(t)
            /\ UNCHANGED attempted
    /\ UNCHANGED <<connVars, connections, nops>>
    /\ UNCHANGED invVars

\* _shutdown_connections() as it would be without the try/except of lines
\* 250-253: an error of close() leaves the loop and the caller.
ShutdownClosedReraises(t) ==
    /\ Depth(t) > 0 /\ Top(t).op \in {"start", "stop"}
    /\ Top(t).pc = "shut_closing" /\ Runs(t)
    /\ IF sig[t] = "exc"
       THEN /\ mlock' = 0
            /\ Finish(t, "exc")
            /\ UNCHANGED <<connections, started, registry, attempted>>
       ELSE /\ GotoI(t, "shutdown", Top(t).i + 1)
            /\ UNCHANGED mgrVars
    /\ UNCHANGED <<connVars, nops>>
    /\ UNCHANGED invVars

\* _shutdown_connections(), lines 251-253: close() returned, or raised and the
\* error was logged; the loop goes on either way.
ShutdownClosed(t) ==
    /\ Depth(t) > 0 /\ Top(t).op \in {"start", "stop"}
    /\ Top(t).pc = "shut_closing" /\ Runs(t)
    /\ GotoI(t, "shutdown", Top(t).i + 1)
    /\ UNCHANGED <<connVars, mgrVars, nops>>
    /\ UNCHANGED invVars

\* refresh(), lines 197-199: refresh the next connection, or, after the last
\* one, rebuild the registry and release the lock.
RefreshLoop(t) ==
    /\ At(t, "refresh", "loop") /\ Runs(t)
    /\ IF Top(t).i <= Len(connections)
       THEN /\ attempted' = [attempted EXCEPT ![t] = @ \cup {connections[Top(t).i]}]
            /\ Call(t, "refreshing",
                    Frame("refresh_tools", "start", connections[Top(t).i]))
            /\ UNCHANGED <<registry, mlock>>
       ELSE /\ registry' = _rebuild_registry
            /\ mlock' = 0
            /\ Finish(t, "ret")
            /\ UNCHANGED attempted
    /\ UNCHANGED <<connVars, connections, started, nops>>
    /\ UNCHANGED invVars

\* refresh(), line 198: refresh_tools() returned, so the loop goes on; or it
\* raised, and the error leaves refresh() through the lock's release.
RefreshReturned(t) ==
    /\ At(t, "refresh", "refreshing") /\ Runs(t)
    /\ IF sig[t] = "ret"
       THEN /\ GotoI(t, "loop", Top(t).i + 1)
            /\ UNCHANGED mlock
       ELSE /\ mlock' = 0
            /\ Finish(t, "exc")
    /\ UNCHANGED <<connVars, connections, started, registry, attempted, nops>>
    /\ UNCHANGED invVars

\* ensure_started(), lines 187-188: start() is called only when not started.
ensure_started(t) ==
    /\ At(t, "ensure_started", "start") /\ Runs(t)
    /\ IF started THEN Finish(t, "ret")
       ELSE Call(t, "starting", Frame("start", "start", 0))
    /\ UNCHANGED <<connVars, mgrVars, nops>>
    /\ UNCHANGED invVars

\* ensure_started(), line 188: start()'s outcome is ensure_started()'s.
EnsureStartedDone(t) ==
    /\ At(t, "ensure_started", "starting") /\ Runs(t)
    /\ Finish(t, sig[t])
    /\ UNCHANGED <<connVars, mgrVars, nops>>
    /\ UNCHANGED invVars

\* add_server() as it would be without the assignment of line 204.
AddServerKeepsStarted(t) ==
    /\ At(t, "add_server", "start") /\ Runs(t)
    /\ connections' = Append(connections, Len(connections) + 1)
    /\ Finish(t, "ret")
    /\ UNCHANGED <<connVars, started, registry, mlock, attempted, nops>>
    /\ UNCHANGED invVars

\* add_server(), lines 203-204: a new McpConnection is appended and the manager
\* is marked not started.  The config's namespace was fixed with the object.
add_server(t) ==
    /\ At(t, "add_server", "start") /\ Runs(t)
    /\ connections' = Append(connections, Len(connections) + 1)
    /\ started' = FALSE
    /\ Finish(t, "ret")
    /\ UNCHANGED <<connVars, registry, mlock, attempted, nops>>
    /\ UNCHANGED invVars

\* `async with manager:` as the specification describes it: start() on enter,
\* stop() on exit.  Entering awaits start(); when that raises, the body and the
\* exit are not run and the error is the statement's.
__aenter__(t) ==
    /\ Depth(t) > 0 /\ Top(t).op = "scoped" /\ Runs(t)
    /\ Top(t).pc \in {"start", "entering"}
    /\ IF Top(t).pc = "start" THEN Call(t, "entering", Frame("start", "start", 0))
       ELSE IF sig[t] = "ret" THEN Goto(t, "body")
       ELSE Finish(t, "exc")
    /\ UNCHANGED <<connVars, mgrVars, nops>>
    /\ UNCHANGED invVars

\* The scope as it would be if a body that raised left without the exit.
AexitUnlessRaised(t, outcome) ==
    IF outcome = "exc" THEN Finish(t, "exc")
    ELSE /\ stack' = [stack EXCEPT ![t] =
                         Append([@ EXCEPT ![Depth(t)].pc = "exiting",
                                          ![Depth(t)].s = <<outcome>>],
                                Frame("stop", "start", 0))]
         /\ sig' = [sig EXCEPT ![t] = "none"]
         /\ running' = t
         /\ last' = NoEvent

\* The exit of the scope awaits stop(), whatever the outcome of the body.
Aexit(t, outcome) ==
    /\ stack' = [stack EXCEPT ![t] =
                    Append([@ EXCEPT ![Depth(t)].pc = "exiting",
                                     ![Depth(t)].s = <<outcome>>],
                           Frame("stop", "start", 0))]
    /\ sig' = [sig EXCEPT ![t] = "none"]
    /\ running' = t
    /\ last' = NoEvent

\* The caller's body, during which other callers may run, returns or raises and
\* the scope is left through its exit; after stop() the body's outcome is the
\* statement's.
__aexit__(t) ==
    /\ Depth(t) > 0 /\ Top(t).op = "scoped"
    /\ IF Top(t).pc = "body"
       THEN Resumes(t) /\ \E outcome \in {"ret", "exc"} : Aexit(t, outcome)
       ELSE Top(t).pc = "exiting" /\ Runs(t) /\ Finish(t, Top(t).s[1])
    /\ UNCHANGED <<connVars, mgrVars, nops>>
    /\ UNCHANGED invVars

MgrSteps(t) ==
    \/ __aenter__(t)
    \/ __aexit__(t)
    \/ MgrAcquire(t)
    \/ StartLoop(t)
    \/ StartConnected(t)
    \/ _shutdown_connections(t)
    \/ ShutdownClosed(t)
    \/ RefreshLoop(t)
    \/ RefreshReturned(t)
    \/ ensure_started(t)
    \/ EnsureStartedDone(t)
    \/ add_server(t)

\* ------------------------------------------------ callers of a manager
MgrOps == {"start", "stop", "refresh", "ensure_started", "add_server", "scoped"}

\* A caller starts one of the manager's public operations.
BeginMgr(t) ==
    /\ Resumes(t) /\ stack[t] = <<>> /\ nops < MaxOps
    /\ t <= nops + 1      \* callers are interchangeable: they enter in order
    /\ \E op \in MgrOps :
           /\ op = "add_server" => Len(connections) < MaxConns
           /\ stack' = [stack EXCEPT ![t] = <<Frame(op, "start", 0)>>]
    /\ sig' = [sig EXCEPT ![t] = "none"]
    /\ running' = t
    /\ nops' = nops + 1
    /\ last' = NoEvent
    /\ UNCHANGED <<connVars, mgrVars>>
    /\ UNCHANGED invVars

\* McpSessionManager.__init__, lines 157-161, for a list of 0..MaxConns server
\* configs, the first with a namespace.
Init ==
    /\ InitConnFields
    /\ InitTasks
    /\ cfg_ns = [c \in ConnIds |-> IF c = 1 THEN <<"srv">> ELSE None]
    /\ \E n \in 0..MaxConns : connections = [k \in 1..n |-> k]
    /\ started = FALSE
    /\ registry = <<>>
    /\ mlock = 0
    /\ attempted = [t \in Tasks |-> {}]

Next == \E t \in Tasks : BeginMgr(t) \/ MgrSteps(t) \/ ConnSteps(t)

Spec == Init /\ [][Next]_vars

\* A caller that holds one of the manager's connections (the `connections`
\* property of the specification hands them out) calls its connect() itself,
\* or invokes a tool on it with call_tool() as McpTool.run_async() does
\* (tool.py line 63), before the manager is stopped.
BeginDirect(t) ==
    /\ Resumes(t) /\ stack[t] = <<>> /\ nops = 0
    /\ t = 1
    /\ \E k \in 1..Len(connections), op \in {"connect", "call_tool"} :
           stack' = [stack EXCEPT ![t] = <<Frame(op, "start", connections[k])>>]
    /\ sig' = [sig EXCEPT ![t] = "none"]
    /\ running' = t
    /\ nops' = nops + 1
    /\ last' = NoEvent
    /\ UNCHANGED <<connVars, mgrVars>>
    /\ UNCHANGED invVars

\* A caller calls stop().
BeginStop(t) ==
    /\ Resumes(t) /\ stack[t] = <<>> /\ nops < MaxOps
    /\ t <= nops + 1
    /\ stack' = [stack EXCEPT ![t] = <<Frame("stop", "start", 0)>>]
    /\ sig' = [sig EXCEPT ![t] = "none"]
    /\ running' = t
    /\ nops' = nops + 1
    /\ last' = NoEvent
    /\ UNCHANGED <<connVars, mgrVars>>
    /\ UNCHANGED invVars

\* Callers of stop() together with the direct caller of a connection.
NextDirect ==
    \E t \in Tasks :
        \/ BeginDirect(t) \/ BeginStop(t)
        \/ MgrAcquire(t) \/ _shutdown_connections(t) \/ ShutdownClosed(t)
        \/ ConnSteps(t)

SpecDirect == Init /\ [][NextDirect]_vars

\* A caller invokes a McpTool it holds when a stop() of the manager has just
\* returned: run_async() calls call_tool() on the descriptor's connection
\* (tool.py line 63), one of the manager's.
BeginAdapter(t) ==
    /\ Resumes(t) /\ stack[t] = <<>> /\ nops < MaxOps
    /\ last.op = "stop"
    /\ \E k \in 1..Len(connections) :
           stack' = [stack EXCEPT ![t] = <<Frame("call_tool", "start", connections[k])>>]
    /\ sig' = [sig EXCEPT ![t] = "none"]
    /\ running' = t
    /\ nops' = nops + 1
    /\ last' = NoEvent
    /\ UNCHANGED <<connVars, mgrVars>>
    /\ UNCHANGED invVars

\* Callers of stop() and, after a stop(), callers of tool adapters.
NextStopped ==
    \E t \in Tasks :
        \/ BeginStop(t) \/ BeginAdapter(t)
        \/ MgrAcquire(t) \/ _shutdown_connections(t) \/ ShutdownClosed(t)
        \/ ConnSteps(t)

SpecStopped == Init /\ [][NextStopped]_vars

\* The connections the manager owns.
Owned == {connections[k] : k \in 1..Len(connections)}

\* ------------------------------------------------ the naming algorithm
\* _rebuild_registry() reads, of each connection, only `namespace`, `tools` and
\* `server_info`; here it is applied to every such input within the bounds: up
\* to MaxConns connections, a config namespace that is absent, empty or set, a
\* server identity that is absent or reports an empty or a proper name, and tool
\* tables of MaxTools names in all.
ServerInfos == {None, <<"">>, <<"srv">>}

RECURSIVE SumLen(_, _)
SumLen(f, n) == IF n = 0 THEN 0 ELSE Len(f[n]) + SumLen(f, n - 1)

TotalTools == SumLen(tools, MaxConns)

\* The connections _rebuild_registry() is applied to: n of them, with tool
\* tables of at most MaxTools names in all and, where a connection has tools,
\* a config namespace and a server identity from the given sets (a connection
\* without tools adds nothing to the registry, whatever its names).
NamingInputs(namespaces, infos) ==
    /\ InitTasks
    /\ stack_entered = [c \in ConnIds |-> FALSE]
    /\ exit_stack = [c \in ConnIds |-> {}]
    /\ session = [c \in ConnIds |-> None]
    /\ call_lock = [c \in ConnIds |-> 0]
    /\ \E n \in 1..MaxConns :
           /\ connections = [k \in 1..n |-> k]
           /\ tools \in [ConnIds -> ToolLists]
           /\ TotalTools <= MaxTools
           /\ \A c \in ConnIds : c > n => tools[c] = <<>>
           /\ cfg_ns \in [ConnIds -> namespaces \cup {None}]
           /\ \A c \in ConnIds :
                  IF tools[c] = <<>> THEN cfg_ns[c] = None
                  ELSE cfg_ns[c] \in namespaces
           /\ server_info \in [ConnIds -> infos \cup {None}]
           /\ \A c \in ConnIds :
                  IF tools[c] = <<>> THEN server_info[c] = None
                  ELSE server_info[c] \in infos
    /\ mlock = 0
    /\ attempted = [t \in Tasks |-> {}]

InitNaming ==
    /\ NamingInputs(Namespaces, ServerInfos)
    /\ connected = [c \in ConnIds |-> FALSE]
    /\ started = FALSE
    /\ registry = <<>>

\* A call of _rebuild_registry(), lines 211-230.
Rebuild ==
    /\ last.op = "none"
    /\ registry' = _rebuild_registry
    /\ last' = [t |-> 0, op |-> "_rebuild_registry", c |-> 0, out |-> "ret"]
    /\ UNCHANGED <<connVars, connections, started, mlock, attempted,
                   stack, sig, running, nops>>
    /\ UNCHANGED invVars

SpecNaming == InitNaming /\ [][Rebuild]_vars

\* ------------------------------------------------------- invocation
\* invoke_tool(exposed_name, args, ensure_started=True) of the manager, as the
\* specification describes it: the name is resolved against the current
\* registry and the call is delegated to the owning connection's call_tool with
\* the descriptor's original name; a name the registry does not have raises the
\* tool-not-found error.  It is applied to a started manager (ensure_started()
\* returns at once, lines 187-188) whose registry is the one start() built, for
\* every name of the registry and a missing one; the connections are named by
\* their servers, whose reported name may be empty.  The owning connection's
\* call_tool is taken as given: it answers with a result or raises.
Args == {"a1", "a2"}
CallResults == {"r1", "r2"}
Missing == "missing"

InitInvoke ==
    /\ NamingInputs({None}, ServerInfos \ {None})
    /\ connected = [c \in ConnIds |-> c \in Owned]
    /\ started = TRUE
    /\ registry = _rebuild_registry

\* What invoke_tool hands to the owning connection.
Delegated(descriptor, args) ==
    [c |-> descriptor.connection, tool |-> descriptor.original_name, args |-> args]

\* invoke_tool's lookup as it would be if it fell back on original names.
LookupAlsoOriginal(exposed_name) ==
    IF exposed_name \in DOMAIN registry THEN <<registry[exposed_name]>>
    ELSE IF \E n \in DOMAIN registry : registry[n].original_name = exposed_name
    THEN <<registry[CHOOSE n \in DOMAIN registry :
                        registry[n].original_name = exposed_name]>>
    ELSE None

\* invoke_tool resolves the exposed name against the current registry.
Lookup(exposed_name) ==
    IF exposed_name \in DOMAIN registry THEN <<registry[exposed_name]>> ELSE None

\* The tool-not-found error, which carries the requested name.
McpToolNotFoundError(tool_name) == <<"McpToolNotFoundError", tool_name>>

\* The names callers invoke: the registry's, the tools' own, and one more.
InvokedNames == DOMAIN registry \cup ToolNames \cup {Missing}

invoke_tool ==
    /\ started /\ nops < MaxInvokes
    /\ \E exposed_name \in InvokedNames, args \in Args :
           LET found == Lookup(exposed_name) IN
           IF found = None
           THEN /\ invocation' = [name |-> exposed_name, args |-> args, result |-> "",
                                  error |-> McpToolNotFoundError(exposed_name)]
                /\ call_log' = <<>>
                /\ last' = [t |-> 0, op |-> "invoke_tool", c |-> 0, out |-> "exc"]
           ELSE \E answer \in CallResults \cup {"exc"} :
                    LET call == Delegated(found[1], args) IN
                    /\ call_log' = <<call @@ [out |-> answer]>>
                    /\ invocation' = [name |-> exposed_name, args |-> args,
                                      result |-> IF answer = "exc" THEN "" ELSE answer,
                                      error |-> IF answer = "exc" THEN <<"call_tool">>
                                                ELSE None]
                    /\ last' = [t |-> 0, op |-> "invoke_tool", c |-> call.c,
                                out |-> IF answer = "exc" THEN "exc" ELSE "ret"]
    /\ nops' = nops + 1
    /\ UNCHANGED <<connVars, mgrVars, stack, sig, running, script>>

SpecInvoke == InitInvoke /\ [][invoke_tool]_vars

\* ---------------------------------------------------- remove_server
\* remove_server(connection_id) of the manager, as the specification describes
\* it: the matching connection is closed and removed and the registry is
\* rebuilt; the answer tells whether a matching connection was found.  It is
\* applied to the started managers of InitInvoke, with the ids of the owned
\* connections and ids that no connection has.  The connection's close() is
\* lines 92-100 with no exit stack entered: it clears the connection at once.
ConnectionIds == 0..MaxConns

remove_server ==
    /\ nops < MaxRemoves
    /\ UNCHANGED <<cfg_ns, stack_entered, exit_stack, call_lock, started, mlock,
                   attempted, stack, sig, running>>
    /\ \E connection_id \in ConnectionIds :
           IF connection_id \notin Owned
           THEN /\ last' = [t |-> 0, op |-> "remove_server", c |-> connection_id,
                            out |-> "false"]
                /\ UNCHANGED <<connections, registry, session, server_info, tools,
                               connected>>
           ELSE /\ Cleared(connection_id)
                /\ connections' = SelectSeq(connections, LAMBDA c : c # connection_id)
                /\ registry' = _rebuild_registry'
                /\ last' = [t |-> 0, op |-> "remove_server", c |-> connection_id,
                            out |-> "true"]
    /\ nops' = nops + 1
    /\ UNCHANGED invVars

SpecRemove == InitInvoke /\ [][remove_server]_vars

\* ------------------------------------------------- the tool adapter
\* McpTool.run_async() and _serialize_call_tool_result() of tool.py.  A raw
\* CallToolResult has the error flag, an optional structured content and up to
\* MaxBlocks content blocks: text blocks (with a text that may be empty) and
\* image blocks; a block's optional `annotations` are absent.
Texts == {"", "pong"}
Blocks ==
    {[type |-> "text", text |-> x, annotations |-> None] : x \in Texts}
        \cup {[type |-> "image", data |-> "png", annotations |-> None]}

RECURSIVE SeqsUpTo(_, _)
SeqsUpTo(S, n) ==
    IF n = 0 THEN {<<>>}
    ELSE LET shorter == SeqsUpTo(S, n - 1) IN
         shorter \cup {Append(q, x) : q \in shorter, x \in S}

CallToolResults ==
    [isError : BOOLEAN, structuredContent : {None, <<"ok">>},
     content : SeqsUpTo(Blocks, MaxBlocks)]

\* _dump_pydantic_model(), lines 136-141: model_dump(mode="json",
\* exclude_none=True) keeps the fields that are set; of a block's fields the
\* optional one is `annotations`.
_dump_pydantic_model(model) ==
    [k \in {f \in DOMAIN model : f # "annotations" \/ model[f] # None} |-> model[k]]

\* The lookup of lines 126-129 as it would be if it passed over empty texts.
FirstNonEmptyText(content) ==
    LET found == {i \in 1..Len(content) :
                     content[i].type = "text" /\ content[i].text # ""} IN
    IF found = {} THEN None
    ELSE <<content[CHOOSE i \in found : \A j \in found : i <= j]>>

\* Lines 126-129: the first block that is a TextContent, or None.
first_text(content) ==
    LET found == {i \in 1..Len(content) : content[i].type = "text"} IN
    IF found = {} THEN None
    ELSE <<content[CHOOSE i \in found : \A j \in found : i <= j]>>

\* _serialize_call_tool_result(), lines 97-133.  The descriptor's server
\* identity is its name here; version and title go the way of the name.  A
\* block found on lines 126-129 is an object, which line 130 takes as true.
_serialize_call_tool_result(result, descriptor) ==
    LET metadata ==
            (IF descriptor.server_info # None
             THEN "server_name" :> descriptor.server_info[1]
             ELSE <<>>)
            @@ ("tool_name" :> descriptor.original_name)
            @@ ("exposed_name" :> descriptor.exposed_name)
            @@ ("namespace" :> namespace(descriptor.connection))
        found == first_text(result.content)
    IN  (IF result.content # <<>> /\ found # None
         THEN "text" :> found[1].text ELSE <<>>)
        @@ (IF result.content # <<>>
            THEN "content" :> [i \in 1..Len(result.content) |->
                                  _dump_pydantic_model(result.content[i])]
            ELSE <<>>)
        @@ (IF result.structuredContent # None
            THEN "structured_content" :> result.structuredContent[1]
            ELSE <<>>)
        @@ ("is_error" :> result.isError)
        @@ ("metadata" :> metadata)

\* The adapters are built over a manager with one connection that has one
\* tool, with or without a config namespace and a server identity.
InitAdapter ==
    /\ InitTasks
    /\ stack_entered = [c \in ConnIds |-> FALSE]
    /\ exit_stack = [c \in ConnIds |-> {}]
    /\ session = [c \in ConnIds |-> None]
    /\ call_lock = [c \in ConnIds |-> 0]
    /\ connections = <<1>>
    /\ connected = [c \in ConnIds |-> c = 1]
    /\ tools = [c \in ConnIds |-> IF c = 1 THEN <<"echo">> ELSE <<>>]
    /\ \E ns \in {None, <<"srv">>} :
           cfg_ns = [c \in ConnIds |-> IF c = 1 THEN ns ELSE None]
    /\ \E info \in {None, <<"srv">>} :
           server_info = [c \in ConnIds |-> IF c = 1 THEN info ELSE None]
    /\ mlock = 0
    /\ attempted = [t \in Tasks |-> {}]
    /\ started = TRUE
    /\ registry = _rebuild_registry

\* McpTool.run_async(), lines 56-72, of an adapter that
\* build_google_adk_tools() (connection.py lines 206-209) made of a descriptor
\* of the registry: the connection's call_tool is awaited with the original
\* name; what it raises is logged and re-raised, what it returns is serialized.
\* `call_log` keeps the call with the raw answer (None when call_tool raised).
run_async ==
    /\ last.op = "none"
    /\ \E exposed_name \in DOMAIN registry, args \in Args,
          answer \in {<<r>> : r \in CallToolResults} \cup {None} :
           LET descriptor == registry[exposed_name]
               call == Delegated(descriptor, args) IN
           /\ call_log' = <<call @@ [out |-> answer]>>
           /\ invocation' =
                  [name |-> exposed_name, args |-> args,
                   result |-> IF answer = None THEN None
                              ELSE <<_serialize_call_tool_result(answer[1], descriptor)>>,
                   error |-> IF answer = None THEN <<"call_tool">> ELSE None]
           /\ last' = [t |-> 0, op |-> "run_async", c |-> call.c,
                       out |-> IF answer = None THEN "exc" ELSE "ret"]
    /\ UNCHANGED <<connVars, mgrVars, stack, sig, running, nops, script>>

SpecAdapter == InitAdapter /\ [][run_async]_vars

\* ------------------------------------------- AtomicOperations
\* do_script_execute() of atomic_operations.py: a synchronous call that
\* submits a command to the ECD service and polls for its result until a
\* deadline.  Time is counted in seconds; time.sleep(POLL_INTERVAL_SECONDS)
\* takes the interval or longer, a poll takes some time or none.
DEFAULT_TIMEOUT_SECONDS == 60
POLL_INTERVAL_SECONDS == 1

\* ScriptExecuteStatus, lines 43-47.
SUCCESS == "success"
FAILED == "failed"
PENDING == "pending"

\* The invocation_status a DesktopCommandResponse may carry; "" is for an
\* absent or empty one.
InvocationStatuses == {"", "Success", "SUCCESS", "Failed", "Running", "Pending"}

\* str.lower() on these.
Lower(str) ==
    CASE str \in {"Success", "SUCCESS"} -> "success"
      [] str = "Failed" -> "failed"
      [] str = "Running" -> "running"
      [] str = "Pending" -> "pending"
      [] OTHER -> str

\* What get_command_result() does: it raises, or returns None, an empty list,
\* or a list whose first response has the given invocation_status.
CommandResults ==
    {[kind |-> k, invocation_status |-> ""] : k \in {"raise", "none", "empty"}}
        \cup {[kind |-> "list", invocation_status |-> x] : x \in InvocationStatuses}

\* _poll_once(), lines 135-153, with _first_or_none(), lines 156-159.
_poll_once(answer) ==
    IF answer.kind = "raise" THEN [status |-> FAILED, response |-> None]
    ELSE IF answer.kind \in {"none", "empty"} \/ answer.invocation_status = ""
    THEN [status |-> PENDING, response |-> None]
    ELSE [status |-> Lower(answer.invocation_status),
          response |-> <<[invocation_status |-> answer.invocation_status]>>]

\* The loop body as it would be if it looked at the status before the
\* response.
PollStepStatusFirst(poll_result) ==
    IF poll_result.status = SUCCESS
    THEN <<[is_success |-> TRUE, message |-> "Success"]>>
    ELSE IF poll_result.status = FAILED
    THEN <<[is_success |-> FALSE, message |-> "Failed"]>>
    ELSE None

\* The loop body, lines 110-130, for one poll result: the response that
\* do_script_execute() returns, or None when the loop sleeps and goes on.  The
\* message is the response's invocation_status, which is not empty here.
PollStep(poll_result) ==
    IF poll_result.response = None THEN None
    ELSE IF poll_result.status = SUCCESS
    THEN <<[is_success |-> TRUE, message |-> poll_result.response[1].invocation_status]>>
    ELSE IF poll_result.status = FAILED
    THEN <<[is_success |-> FALSE, message |-> poll_result.response[1].invocation_status]>>
    ELSE None

\* A poll answer in which the service reports the end of the command.
Terminal(answer) ==
    answer.kind = "list" /\ answer.invocation_status \in {"Success", "SUCCESS", "Failed"}

\* The request and the properties a call is made with: a command, a desktop id
\* and a user id that may each be empty, and a timeout (0: none given).
InitScript ==
    /\ InitConnFields
    /\ stack = [t \in Tasks |-> <<>>]
    /\ sig = [t \in Tasks |-> "none"]
    /\ running = 0
    /\ nops = 0
    /\ last = NoEvent
    /\ invocation = NoInvocation
    /\ call_log = <<>>
    /\ cfg_ns = [c \in ConnIds |-> None]
    /\ connections = <<>>
    /\ started = FALSE
    /\ registry = <<>>
    /\ mlock = 0
    /\ attempted = [t \in Tasks |-> {}]
    /\ \E command \in {"", "cmd"}, computer_resource_id \in {"", "desktop"},
          user_id \in {"", "user"}, timeout \in -1..MaxTimeout :
           script = [pc |-> "start", command |-> command,
                     computer_resource_id |-> computer_resource_id,
                     user_id |-> user_id, timeout |-> timeout,
                     now |-> 0, deadline |-> 0, submitted |-> 0, polls |-> 0,
                     answer |-> [kind |-> "none", invocation_status |-> ""],
                     early |-> FALSE, result |-> None]

Returns(response) == [script EXCEPT !.pc = "done", !.result = <<response>>]
Error(message) == [is_success |-> FALSE, message |-> message]

\* do_script_execute(), lines 71-107: the checks of the request, the one call
\* of run_command(), which answers with an invoke id, with none, or raises,
\* and the deadline.
do_script_execute ==
    /\ script.pc = "start"
    /\ \/ /\ script.command = ""
          /\ script' = Returns(Error("Command is empty"))
       \/ /\ script.command # "" /\ script.computer_resource_id = ""
          /\ script' = Returns(Error("Computer resource id missing"))
       \/ /\ script.command # "" /\ script.computer_resource_id # ""
          /\ script.user_id = ""
          /\ script' = Returns(Error("End user id missing"))
       \/ /\ script.command # "" /\ script.computer_resource_id # ""
          /\ script.user_id # ""
          /\ \E invoke_id \in {"", "invoke-1", "raise"}, d \in 0..MaxDelay :
                 LET timeout == IF script.timeout # 0 THEN script.timeout
                                ELSE DEFAULT_TIMEOUT_SECONDS
                     called == [script EXCEPT !.submitted = @ + 1, !.now = @ + d]
                 IN script' =
                        IF invoke_id = "raise"
                        THEN [called EXCEPT !.pc = "raised"]
                        ELSE IF invoke_id = ""
                        THEN [called EXCEPT !.pc = "done",
                                            !.result = <<Error("Invoke failed")>>]
                        ELSE [called EXCEPT !.pc = "loop",
                                            !.deadline = called.now + timeout]
    /\ UNCHANGED <<connVars, mgrVars, taskVars, invocation, call_log>>

\* One turn of the loop of lines 108-133: past the deadline the call returns
\* "Timeout"; before it the service is polled, and the call returns or sleeps.
\* `early` records that a turn went on after a terminal answer.
PollLoop ==
    /\ script.pc = "loop"
    /\ IF script.now >= script.deadline
       THEN script' = Returns(Error("Timeout"))
       ELSE \E answer \in CommandResults, d \in 0..MaxDelay :
                LET response == PollStep(_poll_once(answer))
                    polled == [script EXCEPT !.polls = @ + 1, !.answer = answer]
                IN script' =
                       IF response # None
                       THEN [polled EXCEPT !.pc = "done", !.result = response,
                                           !.now = @ + d]
                       ELSE [polled EXCEPT !.now = @ + d + POLL_INTERVAL_SECONDS,
                                           !.early = @ \/ Terminal(answer)]
    /\ UNCHANGED <<connVars, mgrVars, taskVars, invocation, call_log>>

NextScript == do_script_execute \/ PollLoop

\* The call is synchronous: it goes on as long as it has a step to take.
SpecScript == InitScript /\ [][NextScript]_vars /\ WF_vars(NextScript)

\* ------------------------------------------------------------- lemmas
\* connect() calls refresh_tools() before it sets _connected (lines 81-82), and
\* refresh_tools() calls connect() again through _require_session() (lines 104
\* and 142): no connect() ever returns normally, so no connection is ever
\* connected and no tool table is ever filled.
NeverConnected == \A c \in ConnIds : ~connected[c] /\ tools[c] = <<>>

\* For the same reason no caller gets past _require_session(): the code under
\* the call lock is never run.
LockedRegionDead ==
    \A t \in Tasks : \A k \in 1..Depth(t) :
        stack[t][k].pc \notin {"lock", "lockwait", "listing", "calling"}

\* The manager's registry is therefore empty in every state.
RegistryAlwaysEmpty == registry = <<>>

\* ------------------------------------------------------------- claims
\* start() has raised in this very step: as a caller's own operation, or inside
\* ensure_started(), which is about to pass the error on.
StartRaised ==
    \/ last.op = "start" /\ last.out = "exc"
    \/ \E t \in Tasks : At(t, "ensure_started", "starting") /\ sig[t] = "exc"

\* C1 (start atomicity): at the moment start() raises because a connect()
\* failed, the manager is not marked started and every owned connection
\* reports is_connected = false and holds no open transport.
C1_StartAtomicity ==
    StartRaised =>
        /\ ~started
        /\ \A c \in Owned : ~is_connected(c) /\ exit_stack[c] = {}

\* C1's case: start() raised on a manager that owns two connections.
C1_Witness == StartRaised /\ Len(connections) = 2

\* C2 (refresh aggregation): when refresh() raises, every owned connection has
\* been asked to refresh its tools.
C2_RefreshAsksEveryConnection ==
    (last.op = "refresh" /\ last.out = "exc") => attempted[last.t] = Owned

\* C3 (lifecycle symmetry): when stop() returns the registry is empty, the
\* manager is not started and every owned connection reports is_connected =
\* false and holds no open transport.
C3_StopLeavesAllClosed ==
    (last.op = "stop" /\ last.out = "ret") =>
        /\ registry = <<>>
        /\ ~started
        /\ \A c \in Owned : ~is_connected(c) /\ exit_stack[c] = {}

\* C3's case: stop() returned on a manager with two connections, after two
\* earlier operations (such as add_server and a start that failed).
C3_Witness ==
    last.op = "stop" /\ last.out = "ret" /\ Len(connections) = 2 /\ nops = MaxOps

\* The tools in the order _rebuild_registry() meets them: <<i, j>> is tool j of
\* connection number i.
EncounterPairs ==
    {<<i, j>> \in (1..Len(connections)) \X (1..MaxTools) :
         j <= Len(tools[connections[i]])}
Earlier(p, q) == p[1] < q[1] \/ (p[1] = q[1] /\ p[2] < q[2])
OriginalOf(p) == tools[connections[p[1]]][p[2]]
\* The registry keys whose descriptor is tool p of its connection.
KeysOf(p) ==
    {n \in DOMAIN registry :
         /\ registry[n].connection = connections[p[1]]
         /\ registry[n].original_name = OriginalOf(p)}
KeysBefore(p) == UNION {KeysOf(q) : q \in {q \in EncounterPairs : Earlier(q, p)}}
Suffixed(base, k) == base \o "#" \o ToString(k)
Rebuilt == last.op = "_rebuild_registry"

\* C5 (naming dedup): after a rebuild the registry has one descriptor per
\* (connection, original name), as many keys as there are cached tools, each
\* descriptor under its own exposed name, and a tool whose base name is taken
\* by an earlier tool is exposed as base#k for the least k >= 1 not taken.
C5_NamingDedup ==
    Rebuilt =>
        /\ Cardinality(DOMAIN registry) = Cardinality(EncounterPairs)
        /\ \A p \in EncounterPairs : Cardinality(KeysOf(p)) = 1
        /\ \A n \in DOMAIN registry : registry[n].exposed_name = n
        /\ \A p \in EncounterPairs :
               LET e == CHOOSE n \in KeysOf(p) : TRUE
                   base == _compose_name(namespace(connections[p[1]]), OriginalOf(p))
               IN IF base \notin KeysBefore(p) THEN e = base
                  ELSE \E k \in 1..Cardinality(EncounterPairs) :
                           /\ e = Suffixed(base, k)
                           /\ e \notin KeysBefore(p)
                           /\ \A m \in 1..(k - 1) : Suffixed(base, m) \in KeysBefore(p)

\* C5's case: a rebuild in which a base name and its #1 were both taken, so a
\* tool was exposed under #2.
C5_Witness ==
    /\ Rebuilt
    /\ \E p \in EncounterPairs :
           Suffixed(_compose_name(namespace(connections[p[1]]), OriginalOf(p)), 2)
               \in KeysOf(p)

\* The names a tool with base name b can be exposed under.
NamesFrom(b) == {b} \cup {Suffixed(b, k) : k \in 1..MaxTools}

\* C6 as stated (namespace prefixing): a connection with an explicit config
\* namespace, or else with a server identity, has each tool t exposed under
\* namespace + separator + t (or a #k of it) and never under bare t; only a
\* connection with neither exposes unprefixed names.
C6_PrefixWhenNamespaceGiven ==
    Rebuilt =>
        \A p \in EncounterPairs :
            LET c == connections[p[1]]
                t == OriginalOf(p)
                given == IF cfg_ns[c] # None THEN cfg_ns[c] ELSE server_info[c]
            IN \A e \in KeysOf(p) :
                   IF given # None
                   THEN e \in NamesFrom(given[1] \o NameSeparator \o t) /\ e # t
                   ELSE e \in NamesFrom(t)

\* A namespace that is present and not the empty string.
Proper(ns) == ns # None /\ ns[1] # ""

\* C6 as amended: the namespace is the explicit config namespace when that is a
\* non-empty string, else the server's self-reported name when that is
\* non-empty; with such a namespace each tool t is exposed under namespace +
\* separator + t (or a #k of it) and never under bare t; a connection without
\* one exposes unprefixed names.
C6_PrefixWhenNamespaceProper ==
    Rebuilt =>
        \A p \in EncounterPairs :
            LET c == connections[p[1]]
                t == OriginalOf(p)
                given == IF Proper(cfg_ns[c]) THEN cfg_ns[c]
                         ELSE IF Proper(server_info[c]) THEN server_info[c]
                         ELSE None
            IN /\ KeysOf(p) # {}
               /\ \A e \in KeysOf(p) :
                      IF given # None
                      THEN e \in NamesFrom(given[1] \o NameSeparator \o t) /\ e # t
                      ELSE e \in NamesFrom(t)

\* C6's case: a rebuild over a connection named by its config and one named by
\* its server, each with a tool.
C6_Witness ==
    /\ Rebuilt
    /\ \E p, q \in EncounterPairs :
           /\ Proper(cfg_ns[connections[p[1]]])
           /\ ~Proper(cfg_ns[connections[q[1]]])
           /\ Proper(server_info[connections[q[1]]])

\* C7 (single handshake): a connection never holds more than one transport
\* with its session: no transport is opened, and no initialize handshake sent,
\* next to one that is still open.
C7_SingleHandshake ==
    \A c \in ConnIds : Cardinality(exit_stack[c]) <= 1

\* C8 (failed connect leaks nothing): when connect() raises to its caller the
\* connection is not connected, holds no session and no open transport, and
\* has neither server identity nor tools.
C8_FailedConnectLeaksNothing ==
    (last.op = "connect" /\ last.out = "exc") =>
        /\ ~is_connected(last.c)
        /\ session[last.c] = None
        /\ exit_stack[last.c] = {}
        /\ server_info[last.c] = None
        /\ tools[last.c] = <<>>
        /\ ~stack_entered[last.c]

\* What close() leaves behind, lines 96-100.
ClosedState(c) ==
    /\ ~stack_entered[c]
    /\ exit_stack[c] = {}
    /\ session[c] = None
    /\ server_info[c] = None
    /\ tools[c] = <<>>
    /\ ~connected[c]

\* A close() that a caller started has returned in this very step.
CloseReturned == last.op = "close" /\ last.out = "ret"

\* A close() of task t starts in this step.
CloseStarts(t) == At(t, "close", "start") /\ Runs(t)

\* The close() of task t that starts in this step also returns in it.
ClosesAtOnce(t) ==
    /\ Depth(t)' = Depth(t) - 1
    /\ IF Depth(t) = 1 THEN last'.out = "ret" ELSE sig'[t] = "ret"

\* C9 (close is safe and idempotent): when close() returns the connection is
\* not connected and identity, session and tools are cleared; a close() that
\* starts while no transport is open returns at once, without raising, and
\* releases nothing; and a close() that starts on a connection in the state a
\* close() leaves behind changes none of the connection's fields.
C9_CloseSafeIdempotent ==
    /\ [](CloseReturned =>
              /\ ~is_connected(last.c)
              /\ session[last.c] = None
              /\ server_info[last.c] = None
              /\ tools[last.c] = <<>>)
    /\ [][\A t \in Tasks : \A c \in ConnIds :
              /\ (CloseStarts(t) /\ Top(t).c = c /\ exit_stack[c] = {}) =>
                     /\ ClosesAtOnce(t)
                     /\ ClosedState(c)'
                     /\ Held' = Held
              /\ (CloseStarts(t) /\ Top(t).c = c /\ ClosedState(c)) =>
                     UNCHANGED <<stack_entered, exit_stack, session, server_info,
                                 tools, connected>>]_vars

\* C9's case: a caller's close() returned while another caller's connect() had
\* already stored the server identity and was re-entering connect().
C9_Witness ==
    /\ CloseReturned
    /\ \E t \in Tasks : Depth(t) >= 3

\* The names a caller can pass to reach a tool: the keys of the registry.
Invoked == last.op = "invoke_tool" /\ invocation.name \in DOMAIN registry

InvokedMissing == last.op = "invoke_tool" /\ invocation.name \notin DOMAIN registry

ToolsOf(c) == {<<c, tools[c][j]>> : j \in 1..Len(tools[c])}
DescribedBy(reg) == {<<reg[n].connection, reg[n].original_name>> : n \in DOMAIN reg}

ScopeExited(t) == At(t, "scoped", "exiting") /\ Runs(t) /\ sig[t] # "none"

\* C13 (scoped lifecycle): a scope that was entered is left, whether its body
\* returned or raised, only after stop() has run and returned: then the
\* manager is not started, the registry (tool_names) is empty and every owned
\* connection is closed, with no tools and no open transport.
C13_ScopedLifecycle ==
    \A t \in Tasks :
        ScopeExited(t) =>
            /\ sig[t] = "ret"
            /\ ~started /\ registry = <<>>
            /\ \A c \in Owned :
                   ~is_connected(c) /\ tools[c] = <<>> /\ exit_stack[c] = {}

\* No scope is left from its body by any step other than its exit's stop().
C13_ExitRunsStop ==
    [][\A t \in Tasks :
           At(t, "scoped", "body") /\ stack'[t] # stack[t] =>
               /\ Len(stack'[t]) = 2
               /\ stack'[t][1].pc = "exiting" /\ stack'[t][2].op = "stop"]_vars

ConnectsInProgress(t, c) ==
    {k \in 1..Depth(t) : stack[t][k].op = "connect" /\ stack[t][k].c = c}

\* C14 (start is idempotent), its first part: start() and ensure_started()
\* invoke each owned connection's connect() at most once; so no caller ever
\* has two calls of connect() on one connection in progress.
C14_ConnectInvokedOnce ==
    \A t \in Tasks : \A c \in ConnIds :
        (Depth(t) > 0 /\ stack[t][1].op \in {"start", "ensure_started"})
            => Cardinality(ConnectsInProgress(t, c)) <= 1

\* Task t is in the body of start(), stop() or refresh(): past the acquisition
\* of the manager's lock and not yet at its release.
InBody(t) ==
    \E k \in 1..Depth(t) :
        /\ stack[t][k].op \in {"start", "stop", "refresh"}
        /\ stack[t][k].pc \notin {"start", "mlockwait"}

\* C15 (manager-level serialization): the bodies of start(), stop() and
\* refresh() are mutually exclusive: at most one caller is in such a body, it
\* is the holder of the manager's lock, and any step that writes the registry
\* is taken by that holder.
C15_BodiesExclusive ==
    /\ \A t1, t2 \in Tasks : InBody(t1) /\ InBody(t2) => t1 = t2
    /\ \A t \in Tasks : InBody(t) <=> mlock = t

\* Only the caller in the body connects, closes or refreshes connections and
\* writes the registry.
C15_StepsByHolder ==
    [][(registry' # registry \/ connVars' # connVars) =>
           \E t \in Tasks : InBody(t) /\ stack'[t] # stack[t]
                            /\ \A u \in Tasks \ {t} : stack'[u] = stack[u]]_vars

\* C15: both parts.
C15_ManagerSerialization == []C15_BodiesExclusive /\ C15_StepsByHolder

\* C15's case: one caller is suspended inside a body (connecting or closing)
\* while another caller of start(), stop() or refresh() waits for the lock.
C15_Witness ==
    \E t1, t2 \in Tasks :
        /\ t1 # t2 /\ InBody(t1) /\ running = 0
        /\ At(t2, Top(t2).op, "mlockwait")

\* C16 (add_server is a pure registration), its first part: the step of
\* add_server() appends exactly one connection, which is idle, marks the
\* manager not started, and changes neither the registry nor any connection's
\* fields, so that no transport is opened.
C16_PureRegistration ==
    [][\A t \in Tasks :
           At(t, "add_server", "start") /\ stack'[t] # stack[t] =>
               /\ Len(connections') = Len(connections) + 1
               /\ SubSeq(connections', 1, Len(connections)) = connections
               /\ LET c == connections'[Len(connections')] IN
                      /\ c \notin Owned
                      /\ ~connected'[c] /\ session'[c] = None
                      /\ tools'[c] = <<>> /\ exit_stack'[c] = {}
               /\ ~started'
               /\ UNCHANGED <<registry, connVars>>]_vars

CloseRaisedInStop(t) == At(t, "stop", "shut_closing") /\ Runs(t) /\ sig[t] = "exc"

\* C17 (stop is best-effort): when the close() of one connection raises inside
\* stop(), stop() goes on with the next connection; and stop() always returns
\* normally, having attempted close() on every owned connection, with the
\* registry cleared and the manager not started.
C17_GoesOnAfterFailure ==
    [][\A t \in Tasks :
           CloseRaisedInStop(t) /\ stack'[t] # stack[t] =>
               /\ Len(stack'[t]) = Len(stack[t])
               /\ At(t, "stop", "shutdown")'
               /\ stack'[t][Len(stack[t])].i = Top(t).i + 1]_vars

C17_StopReturns ==
    last.op = "stop" =>
        /\ last.out = "ret"
        /\ attempted[last.t] = Owned
        /\ registry = <<>> /\ ~started

\* C17: both parts.
C17_StopBestEffort == C17_GoesOnAfterFailure /\ []C17_StopReturns

\* C17's case: inside stop() the close() of the first of two connections has
\* raised, and stop() has the second one yet to close.
C17_Witness ==
    \E t \in Tasks :
        CloseRaisedInStop(t) /\ stack[t][1].op = "stop"
            /\ Top(t).i = 1 /\ Len(connections) = 2

\* C18 (connection state invariant): in every state that other callers can
\* observe (no caller is running: each is suspended or between operations),
\* a connection whose server identity or tool table is non-empty is connected.
C18_PopulatedOnlyWhileConnected ==
    running = 0 =>
        \A c \in ConnIds :
            (server_info[c] # None \/ tools[c] # <<>>) => is_connected(c)

\* The raw result and the envelope of the run_async() that has just returned.
RawResult == call_log[1].out[1]
Envelope == invocation.result[1]
TextBlockIndexes == {i \in 1..Len(RawResult.content) : RawResult.content[i].type = "text"}

\* C19 (adapter envelope): the envelope that run_async() returns has is_error
\* equal to the raw result's error flag; it has the field `text` exactly when
\* the raw result has a text block, and then `text` is the text of the first
\* text block in the order of the content.
C19_AdapterEnvelope ==
    (last.op = "run_async" /\ last.out = "ret") =>
        /\ Envelope["is_error"] = RawResult.isError
        /\ "text" \in DOMAIN Envelope <=> TextBlockIndexes # {}
        /\ \A i \in TextBlockIndexes :
               (\A j \in TextBlockIndexes : i <= j)
                   => Envelope["text"] = RawResult.content[i].text

\* C19's case: the raw result is an error whose content begins with an image,
\* then has a text block with an empty text and a later one with a text; the
\* envelope's text is the empty one.
C19_Witness ==
    /\ last.op = "run_async" /\ last.out = "ret"
    /\ RawResult.isError
    /\ Len(RawResult.content) = 3
    /\ RawResult.content[1].type = "image"
    /\ RawResult.content[2].type = "text" /\ RawResult.content[2].text = ""
    /\ RawResult.content[3].type = "text" /\ RawResult.content[3].text = "pong"
    /\ Envelope["text"] = ""

\* A tool invocation is in flight on connection c: its request has been sent
\* under the connection's call lock and the answer is awaited.
InFlight(c) == \E t \in Tasks : At(t, "call_tool", "calling") /\ Top(t).c = c

\* No tool invocation is ever in flight, whether the manager's lock is held or
\* not: call_tool() never gets past _require_session().
NoInvocationInFlight == \A c \in ConnIds : ~InFlight(c)

Submitted == script.pc \in {"loop", "done"} /\ script.submitted > 0
                 /\ (script.pc = "done" => script.result[1].message # "Invoke failed")

\* C21, the safety part: the command is submitted exactly once; the loop goes
\* on only after answers that are not terminal; a call that has returned after
\* polling returned success exactly when its last answer said Success, an
\* error with the service's status exactly when it said Failed, and "Timeout"
\* exactly when no answer was terminal and the deadline has passed.
C21_FirstTerminalPollEnds ==
    Submitted =>
        /\ script.submitted = 1
        /\ ~script.early
        /\ script.pc = "loop" => ~Terminal(script.answer)
        /\ script.pc = "done" =>
               LET r == script.result[1] IN
               IF script.polls > 0 /\ Terminal(script.answer)
               THEN /\ r.is_success <=> script.answer.invocation_status \in {"Success", "SUCCESS"}
                    /\ r.message = script.answer.invocation_status
               ELSE /\ r = [is_success |-> FALSE, message |-> "Timeout"]
                    /\ script.now >= script.deadline

\* C21 (do_script_execute terminates): once the command is submitted the call
\* returns, with the outcome of the first terminal poll or with "Timeout", and
\* run_command() was called exactly once.
C21_ScriptTerminates ==
    /\ []C21_FirstTerminalPollEnds
    /\ (script.pc = "loop") ~> (script.pc = "done")

\* C21's case: the call returned success after polls that found nothing, with
\* the default timeout.
C21_Witness ==
    /\ script.pc = "done" /\ script.result[1].is_success
    /\ script.polls >= 3 /\ script.timeout = 0

\* C21's other case: the deadline passed after polls whose answers were a
\* failure to fetch, an empty list or a command still running.
C21_WitnessTimeout ==
    /\ script.pc = "done" /\ script.result[1].message = "Timeout"
    /\ script.polls >= 2 /\ script.answer.kind = "raise"

\* C22 (connect succeeds when the server cooperates): a connect() called on an
\* idle or closed connection whose transport opened and whose handshake was
\* answered returns with the connection connected.  A caller's connect() is at
\* line 81 only after both; so when the refresh_tools() it awaits there is
\* over, it has returned and has not raised.
C22_ConnectReturnsConnected ==
    \A t \in Tasks :
        (Depth(t) = 1 /\ At(t, "connect", "refreshing") /\ Runs(t)) => sig[t] = "ret"

\* connect() has begun on the connection: it is connected or has entered its
\* exit stack (lines 68-75).
ConnectBegun(c) == connected[c] \/ stack_entered[c]

\* C23 (concurrent start): the connection attempts of start() overlap, so a
\* slow server does not delay the others' handshakes.  So whenever start() is
\* suspended in the connect() of one connection and the event loop is idle,
\* the connect() of every later connection has begun.
C23_ConnectsOverlap ==
    \A t \in Tasks :
        (Depth(t) >= 2 /\ stack[t][1].op = "start" /\ stack[t][1].pc = "connecting"
            /\ running = 0) =>
            \A j \in (stack[t][1].i + 1)..Len(connections) :
                ConnectBegun(connections[j])

\* C24 (refresh ensures started): a refresh() that succeeds has started the
\* manager first when it was not started, so it leaves the manager marked
\* started.
C24_RefreshLeavesStarted ==
    (last.op = "refresh" /\ last.out = "ret") => started

Quiescent == \A t \in Tasks : stack[t] = <<>>

\* C30 (started implies connected): when the manager is marked started and no
\* lifecycle operation is in progress, every connection of its list is
\* connected and the registry is the naming algorithm's result for the
\* connections' tool tables; and add_server(), stop() and a start() that
\* raised leave the manager marked not started.
C30_StartedImpliesConnected ==
    /\ (started /\ Quiescent) =>
           /\ \A k \in 1..Len(connections) : is_connected(connections[k])
           /\ registry = _rebuild_registry
    /\ last.op \in {"add_server", "stop"} => ~started
    /\ (last.op = "start" /\ last.out = "exc") => ~started

\* C30's cases: a started manager at rest; an add_server() that has just
\* returned on a manager that start() had marked started, which takes a
\* start() and an add_server() after it; a start() that has just raised.
C30_Witness == started /\ Quiescent /\ nops >= 1

C30_WitnessFailedStart ==
    last.op = "start" /\ last.out = "exc" /\ Len(connections) = 2

====
